---- MODULE Spec2Model ----
(***************************************************************************)
(* Model of fix-imports.py: a script that walks src/, and in every file    *)
(* whose name matches the glob *.ts* replaces alias imports                *)
(* (from "@/lib/...") by relative paths.                                   *)
(*                                                                         *)
(* Texts, file names and directory names are sequences of one-character    *)
(* strings, so that regular-expression matching, str.replace, the glob     *)
(* and the newline translation of text-mode files are computed character   *)
(* by character as Python computes them.  A path is a sequence of          *)
(* components, each component a sequence of characters.                    *)
(***************************************************************************)
EXTENDS Integers, Sequences, FiniteSets, TLC

VARIABLES
    platform,         \* the operating system the script runs on
    fs,               \* the bytes of every file under src
    todo,             \* the files rglob yields, in the order it yields them
    idx,              \* the position of the loop in todo
    files_processed,  \* the counter of the script
    out,              \* the lines printed
    pc,               \* "loop", "done", or "aborted" by an exception
    run,              \* the number of the current invocation
    orig,             \* history: the bytes before the first invocation
    before,           \* history: the bytes before the current invocation
    opened,           \* history: the files opened by the current invocation
    written,          \* history: the bytes fix_imports wrote, per file
    skipped,          \* history: <<file, target_dir>> whose relpath raised
    raised            \* history: the files whose open, read or write raised

vars == <<platform, fs, todo, idx, files_processed, out, pc, run,
          orig, before, opened, written, skipped, raised>>

----------------------------------------------------------------------------
(* Bounds *)

\* longest initial content of the single-file specification, in chunks
MaxChunks == 2
\* number of times the script is invoked on the same tree
MaxRuns == 2

----------------------------------------------------------------------------
(* Characters and words *)

LF == "\n"
CR == "\r"
DQ == "\""
SQ == "'"
BSL == "\\"

W_from == <<"f", "r", "o", "m", " ">>
W_at == <<"@", "/">>
W_src == <<"s", "r", "c">>
W_components == <<"c", "o", "m", "p", "o", "n", "e", "n", "t", "s">>
W_lib == <<"l", "i", "b">>
W_context == <<"c", "o", "n", "t", "e", "x", "t">>
W_types == <<"t", "y", "p", "e", "s">>
W_hooks == <<"h", "o", "o", "k", "s">>
W_util == <<"u", "t", "i", "l">>
W_foo == <<"f", "o", "o">>
W_work == <<"w">>

----------------------------------------------------------------------------
(* Generic string functions of Python *)

\* s[i..] starts with p
StartsWithAt(s, i, p) ==
    /\ i + Len(p) - 1 <= Len(s)
    /\ \A k \in 1..Len(p) : s[i + k - 1] = p[k]

\* sub in s
Contains(s, sub) == \E i \in 1..(Len(s) + 1) : StartsWithAt(s, i, sub)

\* the least element of a non-empty set of positions
First(S) == CHOOSE j \in S : \A k \in S : j <= k

\* the positions from i on at which p occurs in s
Occurrences(s, i, p) == {j \in i..Len(s) : StartsWithAt(s, j, p)}

RECURSIVE ReplaceFrom(_, _, _, _)
\* the scan of str.replace from position i on: copy up to the next
\* occurrence of old, emit new, go on after the occurrence
ReplaceFrom(s, i, old, new) ==
    IF Occurrences(s, i, old) = {} THEN SubSeq(s, i, Len(s))
    ELSE LET j == First(Occurrences(s, i, old))
         IN SubSeq(s, i, j - 1) \o new \o ReplaceFrom(s, j + Len(old), old, new)

\* s.replace(old, new), old not empty: every non-overlapping occurrence,
\* left to right
StrReplace(s, old, new) == ReplaceFrom(s, 1, old, new)

RECURSIVE JoinWith(_, _)
\* sep.join(parts)
JoinWith(parts, sepc) ==
    IF Len(parts) = 0 THEN <<>>
    ELSE IF Len(parts) = 1 THEN parts[1]
    ELSE parts[1] \o <<sepc>> \o JoinWith(Tail(parts), sepc)

RECURSIVE Flatten(_)
Flatten(parts) ==
    IF Len(parts) = 0 THEN <<>> ELSE parts[1] \o Flatten(Tail(parts))

----------------------------------------------------------------------------
(* Platform: os.sep and os.linesep *)

Platforms == {"posix", "nt"}

Sep(pf) == IF pf = "nt" THEN BSL ELSE "/"

LineSep(pf) == IF pf = "nt" THEN <<CR, LF>> ELSE <<LF>>

----------------------------------------------------------------------------
(* Text-mode file I/O: open(file_path, 'r'/'w', encoding='utf-8') with the *)
(* default newline=None                                                    *)

RECURSIVE ReadFrom(_, _)
\* the newline decoder from position i on: copy up to the next "\r", emit
\* "\n" for it and for the "\n" that may follow it
ReadFrom(b, i) ==
    IF Occurrences(b, i, <<CR>>) = {} THEN SubSeq(b, i, Len(b))
    ELSE LET j == First(Occurrences(b, i, <<CR>>))
         IN SubSeq(b, i, j - 1) \o <<LF>> \o
            ReadFrom(b, IF j < Len(b) /\ b[j + 1] = LF THEN j + 2 ELSE j + 1)

\* f.read(): universal newlines, "\r\n" and "\r" are read as "\n"
ReadText(b) == ReadFrom(b, 1)

RECURSIVE WriteFrom(_, _, _)
\* the newline encoder from position i on
WriteFrom(t, i, pf) ==
    IF Occurrences(t, i, <<LF>>) = {} THEN SubSeq(t, i, Len(t))
    ELSE LET j == First(Occurrences(t, i, <<LF>>))
         IN SubSeq(t, i, j - 1) \o LineSep(pf) \o WriteFrom(t, j + 1, pf)

\* f.write(content): every "\n" is written as os.linesep
WriteBytes(t, pf) == WriteFrom(t, 1, pf)

----------------------------------------------------------------------------
(* get_relative_path *)

\* the directory the script is started in
Cwd == <<W_work>>

\* Path(from_file).parent
Parent(path) == SubSeq(path, 1, Len(path) - 1)

\* abspath of a relative path
AbsPath(path) == Cwd \o path

RECURSIVE CommonLen(_, _)
\* len(commonprefix([a, b]))
CommonLen(a, b) ==
    IF Len(a) = 0 \/ Len(b) = 0 \/ a[1] # b[1] THEN 0
    ELSE 1 + CommonLen(Tail(a), Tail(b))

\* os.path.relpath(path, start), both absolute component lists
RelPath(path, start, pf) ==
    LET i == CommonLen(start, path)
        ups == [k \in 1..(Len(start) - i) |-> <<".", ".">>]
        rel_list == ups \o SubSeq(path, i + 1, Len(path))
    IN IF Len(rel_list) = 0 THEN <<".">> ELSE JoinWith(rel_list, Sep(pf))

\* get_relative_path(from_file, to_dir) when relpath does not raise
GetRelativePath(from_file, to_dir, pf) ==
    LET rel == StrReplace(RelPath(to_dir, AbsPath(Parent(from_file)), pf),
                          <<BSL>>, <<"/">>)
    IN IF rel[1] # "." THEN <<".", "/">> \o rel ELSE rel

----------------------------------------------------------------------------
(* fix_imports: the alias patterns, re.finditer and the replacement loop *)

\* the characters of the class ["\']
Quotes == {DQ, SQ}

\* patterns: the text after the quote, and target_dir
Patterns ==
    << [alias |-> W_at \o W_components \o <<"/">>, target_dir |-> W_components],
       [alias |-> W_at \o W_lib \o <<"/">>,        target_dir |-> W_lib],
       [alias |-> W_at \o W_context \o <<"/">>,    target_dir |-> W_context],
       [alias |-> W_at \o W_types,                 target_dir |-> W_types] >>

Targets == {Patterns[k].target_dir : k \in 1..Len(Patterns)}

\* length of the regular expression's match: "from ", one quote, the alias
MatchLen(pat) == Len(W_from) + 1 + Len(pat.alias)

\* the regular expression  from ["\']<alias>  matches s at position i
MatchesAt(pat, s, i) ==
    /\ i + MatchLen(pat) - 1 <= Len(s)
    /\ StartsWithAt(s, i, W_from)
    /\ s[i + Len(W_from)] \in Quotes
    /\ StartsWithAt(s, i + Len(W_from) + 1, pat.alias)

RECURSIVE FindFrom(_, _, _)
\* the scan of finditer from position i on: the leftmost match, then the
\* matches after its end
FindFrom(pat, s, i) ==
    IF {j \in i..Len(s) : MatchesAt(pat, s, j)} = {} THEN <<>>
    ELSE LET j == First({k \in i..Len(s) : MatchesAt(pat, s, k)})
         IN <<SubSeq(s, j, j + MatchLen(pat) - 1)>>
                \o FindFrom(pat, s, j + MatchLen(pat))

\* [m.group(0) for m in re.finditer(pattern, content)]
FindIter(pat, s) == FindFrom(pat, s, 1)

\* Path('src').absolute()
SrcDir == AbsPath(<<W_src>>)

\* faulty variant: keeps the alias and appends the relative path to the match
NewImportAppending(old_import, rel_path) == old_import \o rel_path \o <<"/">>

\* faulty variant: forgets the "/" after the relative path
NewImportNoSlash(old_import, rel_path) == StrReplace(old_import, W_at, rel_path)

\* new_import = old_import.replace('@/', rel_path + '/')
NewImport(old_import, rel_path) ==
    StrReplace(old_import, W_at, rel_path \o <<"/">>)

\* faulty variant: substitutes an empty path when relpath raised
OneMatchIgnoringNone(content, old_import, rel_path, is_none) ==
    IF is_none
    THEN StrReplace(content, old_import, NewImport(old_import, <<>>))
    ELSE StrReplace(content, old_import, NewImport(old_import, rel_path))

\* the body of the inner loop for one match; is_none: relpath raised, so
\* get_relative_path returned None
OneMatch(content, old_import, rel_path, is_none) ==
    IF is_none
    THEN content
    ELSE StrReplace(content, old_import, NewImport(old_import, rel_path))

RECURSIVE ForMatches(_, _, _, _)
\* for match in matches: ...
ForMatches(content, matches, rel_path, is_none) ==
    IF Len(matches) = 0 THEN content
    ELSE ForMatches(OneMatch(content, matches[1], rel_path, is_none),
                    Tail(matches), rel_path, is_none)

RECURSIVE ForPatterns(_, _, _, _, _, _)
\* for pattern, target_dir in patterns: ...   (the k-th to the n-th pattern)
ForPatterns(content, k, n, file_path, pf, failing) ==
    IF k > n THEN content
    ELSE LET pat == Patterns[k]
             target_path == SrcDir \o <<pat.target_dir>>
             rel_path == GetRelativePath(file_path, target_path, pf)
         IN ForPatterns(ForMatches(content, FindIter(pat, content), rel_path,
                                   pat.target_dir \in failing),
                        k + 1, n, file_path, pf, failing)

\* the content fix_imports writes for the content it read; failing: the
\* target directories for which os.path.relpath raises
FixText(file_path, content, pf, failing) ==
    ForPatterns(content, 1, Len(Patterns), file_path, pf, failing)

\* faulty variant: reports success only when the content changed
FixImportsReturnChanged(old, new) == old # new

\* return True
FixImportsReturn(old, new) == TRUE

\* the bytes of the file after fix_imports(file_path)
FixBytes(file_path, bytes, pf, failing) ==
    WriteBytes(FixText(file_path, ReadText(bytes), pf, failing), pf)

----------------------------------------------------------------------------
(* The files *)

N_x == <<"x", ".", "t", "s">>
N_y == <<"y", ".", "t", "s", "x">>
N_z == <<"z", ".", "t", "s", "x">>
N_d == <<"d", ".", "t", "s", "v">>
N_n == <<"n", ".", "t", "x", "t">>

F_x == <<W_src, N_x>>
F_y == <<W_src, W_components, N_y>>
F_z == <<W_src, W_lib, W_util, N_z>>
F_d == <<W_src, N_d>>
F_n == <<W_src, N_n>>

\* the glob *.ts* of src_path.rglob('*.ts*'): ".ts" anywhere in the name
MatchesGlob(name) == Contains(name, <<".", "t", "s">>)

\* the files src_path.rglob('*.ts*') yields
Enumerate(files) == {f \in files : MatchesGlob(f[Len(f)])}

\* the orders a set of files can be enumerated in
Orders(S) ==
    {q \in [1..Cardinality(S) -> S] : \A i, j \in DOMAIN q : q[i] = q[j] => i = j}

Import(q, alias) == W_from \o <<q>> \o W_at \o alias \o <<"/">> \o W_foo \o <<q>>

ImportTypes(q) == W_from \o <<q>> \o W_at \o W_types \o <<q>>

\* the pieces initial contents are made of
Chunks ==
    { Import(DQ, W_lib), Import(SQ, W_lib), Import(DQ, W_components),
      Import(DQ, W_context), Import(DQ, W_types), ImportTypes(DQ),
      Import(DQ, W_hooks), W_from \o <<DQ>>, <<LF>>, <<CR, LF>> }

RichContents ==
    {Flatten(cs) : cs \in UNION {[1..n -> Chunks] : n \in 0..MaxChunks}}

\* the files of the single-file specification
OneFiles == {F_x, F_y, F_z}

\* the files and contents of the tree specifications
TreeFiles == {F_x, F_y, F_d, F_n}

TreeContents ==
    { Import(DQ, W_lib) \o <<CR, LF>> \o ImportTypes(SQ) \o <<LF>>,
      Import(DQ, W_hooks) \o <<CR, LF>>,
      Import(SQ, W_lib) \o Import(SQ, W_lib) }

FaultContents ==
    { Import(DQ, W_lib) \o <<LF>> \o ImportTypes(SQ),
      Import(DQ, W_hooks) }

----------------------------------------------------------------------------
(* The script *)

\* faulty variant: catches the exception and goes on with the loop
RaiseCaught == "loop"

\* uncaught exception: the interpreter exits
Raise == "aborted"

InitCommon ==
    /\ platform \in Platforms
    /\ fs = orig
    /\ before = orig
    /\ todo \in Orders(Enumerate(DOMAIN orig))
    /\ idx = 1
    /\ files_processed = 0
    /\ out = <<>>
    /\ opened = {}
    /\ written = <<>>
    /\ skipped = {}
    /\ raised = {}
    /\ pc = "loop"
    /\ run = 1

\* a tree of several files
Init ==
    /\ orig \in [TreeFiles -> TreeContents]
    /\ InitCommon

\* a tree of several files, for the runs with errors
InitFault ==
    /\ orig \in [TreeFiles -> FaultContents]
    /\ orig[F_n] = Import(DQ, W_lib) \o <<LF>> \o ImportTypes(SQ)
    /\ InitCommon

\* a tree of one file
InitOne ==
    /\ \E f \in OneFiles, c \in RichContents : orig = [g \in {f} |-> c]
    /\ InitCommon

\* one iteration of the loop over rglob, the file I/O succeeding.  failing:
\* the target directories for which os.path.relpath raises; all the calls
\* of get_relative_path for one pattern have the same arguments, and the
\* working directory they depend on is the same during the iteration
Iteration(failing) ==
    /\ pc = "loop"
    /\ idx <= Len(todo)
    /\ LET file_path == todo[idx]
           new == FixBytes(file_path, fs[file_path], platform, failing)
           ok == FixImportsReturn(fs[file_path], new)
       IN /\ fs' = [fs EXCEPT ![file_path] = new]
          /\ opened' = opened \cup {file_path}
          /\ written' = [g \in DOMAIN written \cup {file_path} |->
                             IF g = file_path THEN new ELSE written[g]]
          /\ skipped' = skipped \cup
                 {<<file_path, Patterns[k].target_dir>> : k \in
                     {j \in 1..Len(Patterns) :
                         /\ Patterns[j].target_dir \in failing
                         /\ FindIter(Patterns[j], ReadText(fs[file_path])) # <<>>}}
          /\ files_processed' = IF ok THEN files_processed + 1 ELSE files_processed
          /\ out' = IF ok THEN Append(out, [line |-> "Fixed", path |-> file_path])
                          ELSE out
    /\ idx' = idx + 1
    /\ UNCHANGED <<platform, orig, before, todo, pc, run, raised>>

FixImports == Iteration({})

\* os.path.relpath raises for some target directories
RelPathRaises == \E failing \in SUBSET Targets \ {{}} : Iteration(failing)

\* open(file_path, 'r') or f.read() raises
ReadError ==
    /\ pc = "loop"
    /\ idx <= Len(todo)
    /\ opened' = opened \cup {todo[idx]}
    /\ raised' = raised \cup {todo[idx]}
    /\ pc' = Raise
    /\ UNCHANGED <<platform, fs, orig, before, todo, idx, files_processed, out,
                   written, skipped, run>>

\* open(file_path, 'w') raises (the file is as it was) or f.write raises
\* after the file was truncated (a prefix of the new bytes is on disk)
WriteError ==
    /\ pc = "loop"
    /\ idx <= Len(todo)
    /\ \/ fs' = fs
       \/ \E new \in {FixBytes(todo[idx], fs[todo[idx]], platform, {})} :
              \E n \in 0..Len(new) :
                  fs' = [fs EXCEPT ![todo[idx]] = SubSeq(new, 1, n)]
    /\ opened' = opened \cup {todo[idx]}
    /\ raised' = raised \cup {todo[idx]}
    /\ pc' = Raise
    /\ UNCHANGED <<platform, orig, before, todo, idx, files_processed, out,
                   written, skipped, run>>

\* the loop is over: print(f"\nTotal files processed: {files_processed}")
Summary ==
    /\ pc = "loop"
    /\ idx > Len(todo)
    /\ out' = Append(out, [line |-> "Total", n |-> files_processed])
    /\ pc' = "done"
    /\ UNCHANGED <<platform, fs, orig, before, todo, idx, files_processed,
                   opened, written, skipped, raised, run>>

\* the script is started again on the tree the previous run left
Rerun ==
    /\ pc = "done"
    /\ run < MaxRuns
    /\ run' = run + 1
    /\ before' = fs
    /\ todo' \in Orders(Enumerate(DOMAIN fs))
    /\ idx' = 1
    /\ files_processed' = 0
    /\ out' = <<>>
    /\ opened' = {}
    /\ written' = <<>>
    /\ pc' = "loop"
    /\ UNCHANGED <<platform, fs, orig, skipped, raised>>

Next == FixImports \/ Summary \/ Rerun

Spec == Init /\ [][Next]_vars

RewriteSpec == InitOne /\ [][Next]_vars

FaultNext == FixImports \/ RelPathRaises \/ ReadError \/ WriteError \/ Summary

FaultSpec == InitFault /\ [][FaultNext]_vars

----------------------------------------------------------------------------
(* Properties *)

\* the file has been through fix_imports in the current invocation
Processed(f) == \E i \in 1..(idx - 1) : todo[i] = f

\* the pattern of a target directory
PatternOf(t) == Patterns[CHOOSE k \in 1..Len(Patterns) : Patterns[k].target_dir = t]

\* the relative path from the directory of f to src/<t>
RelTo(f, t) == GetRelativePath(f, SrcDir \o <<t>>, platform)

\* no alias pattern matches the text
NoMatch(text) == \A k \in 1..Len(Patterns) : FindIter(Patterns[k], text) = <<>>

\* the import  from "<rel>/foo"  with the quote q
Rewritten(q, rel) == W_from \o <<q>> \o rel \o <<"/">> \o W_foo \o <<q>>

\* C1: after the first invocation has processed a file, every import
\* from "@/<alias>/foo" (either quote, each of the four aliases) of its
\* original text has become  from "<rel>/foo", <rel> the relative path from
\* the file's directory to src/<alias>.
C1_AliasBecomesRelative ==
    run = 1 =>
        \A f \in DOMAIN fs, t \in Targets, q \in Quotes :
            (Processed(f) /\ Contains(ReadText(orig[f]), Import(q, t)))
                => Contains(ReadText(fs[f]), Rewritten(q, RelTo(f, t)))

\* C2: for a processed file directly in src/, the import from "@/lib/foo"
\* has become  from "./lib/foo".
C2_SrcLevelDotSlash ==
    run = 1 =>
        \A f \in DOMAIN fs, q \in Quotes :
            (Processed(f) /\ Len(f) = 2
                 /\ Contains(ReadText(orig[f]), Import(q, W_lib)))
                => Contains(ReadText(fs[f]),
                            Rewritten(q, <<".", "/">> \o W_lib))

\* C3: a processed file that held both  from "@/lib/foo"  and
\* from "@/types"  holds  from "<rel to src/lib>/foo"  and
\* from "<rel to src/types>"  afterwards.
C3_TwoAliasesBothRelative ==
    run = 1 =>
        \A f \in DOMAIN fs :
            (Processed(f)
                 /\ Contains(ReadText(orig[f]), Import(DQ, W_lib))
                 /\ Contains(ReadText(orig[f]), ImportTypes(DQ)))
                => /\ Contains(ReadText(fs[f]), Rewritten(DQ, RelTo(f, W_lib)))
                   /\ Contains(ReadText(fs[f]),
                               W_from \o <<DQ>> \o RelTo(f, W_types) \o <<DQ>>)

\* C4: idempotence.  In a second (or later) invocation no file differs from
\* what the previous invocation left, and what the previous invocation left
\* in the files it processed has no match of any alias pattern.
C4_Idempotent ==
    run >= 2 =>
        /\ fs = before
        /\ \A i \in 1..Len(todo) : NoMatch(ReadText(before[todo[i]]))

C4_Witness ==
    /\ run = 2
    /\ pc = "done"
    /\ \E f \in DOMAIN fs :
           /\ Processed(f)
           /\ ~NoMatch(ReadText(orig[f]))
           /\ fs[f] # orig[f]

\* C5: a processed file whose text has no match of any alias pattern has
\* the bytes it had before, and is counted.
C5_NoMatchSameBytes ==
    run = 1 =>
        \A f \in DOMAIN fs :
            (Processed(f) /\ NoMatch(ReadText(orig[f])))
                => /\ fs[f] = orig[f]
                   /\ files_processed = idx - 1

\* the name ends with .ts or .tsx
IsTypeScriptName(name) ==
    \E e \in {<<".", "t", "s">>, <<".", "t", "s", "x">>} :
        /\ Len(name) >= Len(e)
        /\ StartsWithAt(name, Len(name) - Len(e) + 1, e)

\* C6: a file whose extension is neither .ts nor .tsx is never opened and
\* keeps its content.
C6_OnlyTypeScriptTouched ==
    \A f \in DOMAIN fs :
        ~IsTypeScriptName(f[Len(f)]) => (f \notin opened /\ fs[f] = orig[f])

\* C7: once reading or writing a file has raised, the run is aborted at
\* that file: the files before it hold what fix_imports wrote to them, the
\* files after it hold their original bytes and were not opened, nothing but
\* the files up to it was opened, and no summary line is printed.
C7_ErrorAborts ==
    raised # {} =>
        /\ pc = "aborted"
        /\ idx <= Len(todo)
        /\ raised = {todo[idx]}
        /\ \A i \in 1..(idx - 1) :
               /\ todo[i] \in DOMAIN written
               /\ fs[todo[i]] = written[todo[i]]
        /\ \A i \in (idx + 1)..Len(todo) :
               /\ fs[todo[i]] = orig[todo[i]]
               /\ todo[i] \notin opened
        /\ opened = {todo[i] : i \in 1..idx}
        /\ \A i \in 1..Len(out) : out[i].line # "Total"

C7_Witness ==
    /\ pc = "aborted"
    /\ idx = 2
    /\ Len(todo) = 3
    /\ fs[todo[1]] # orig[todo[1]]
    /\ fs[todo[2]] # orig[todo[2]]
    /\ ~NoMatch(ReadText(orig[todo[3]]))

\* C8: the lines printed are, in enumeration order, one "Fixed" line per
\* file, printed when the file has been written back, and, when the loop is
\* over, a last line with the total, which is the number of enumerated
\* files; the counter and the number of "Fixed" lines follow the loop one
\* file at a time.
C8_Output ==
    /\ \A i \in 1..Len(out) :
           IF i <= Len(todo)
           THEN /\ out[i] = [line |-> "Fixed", path |-> todo[i]]
                /\ i < idx
                /\ todo[i] \in DOMAIN written
                /\ fs[todo[i]] = written[todo[i]]
           ELSE /\ out[i] = [line |-> "Total", n |-> Len(todo)]
                /\ i = Len(todo) + 1
                /\ pc = "done"
    /\ pc = "loop" => (Len(out) = idx - 1 /\ files_processed = idx - 1)
    /\ pc = "done" => (Len(out) = Len(todo) + 1 /\ files_processed = Len(todo))

C8_Witness ==
    /\ pc = "done"
    /\ run = 1
    /\ Len(out) = 4
    /\ \E i, j \in 1..Len(todo) :
           /\ fs[todo[i]] = orig[todo[i]]
           /\ fs[todo[j]] # orig[todo[j]]

\* some alias pattern matches s at position j
AnyMatchAt(s, j) == \E k \in 1..Len(Patterns) : MatchesAt(Patterns[k], s, j)

RECURSIVE SpanRewriteFrom(_, _, _)
\* the text from position i on, in which every span matched by an alias
\* pattern has its "@/" replaced by the relative path to the pattern's
\* target directory and "/", and nothing else is changed
SpanRewriteFrom(f, s, i) ==
    IF {j \in i..Len(s) : AnyMatchAt(s, j)} = {} THEN SubSeq(s, i, Len(s))
    ELSE LET j == First({k \in i..Len(s) : AnyMatchAt(s, k)})
             pat == Patterns[CHOOSE k \in 1..Len(Patterns) :
                                 MatchesAt(Patterns[k], s, j)]
         IN SubSeq(s, i, j + Len(W_from))
                \o RelTo(f, pat.target_dir) \o <<"/">>
                \o SubSeq(pat.alias, Len(W_at) + 1, Len(pat.alias))
                \o SpanRewriteFrom(f, s, j + MatchLen(pat))

\* C9: what fix_imports writes is the text read with, at each match span
\* only, "@/" replaced by the relative path computed for the match and "/";
\* and the matches each pattern finds, after the patterns before it have been
\* applied, are the matches it finds in the text read.
C9_SpanEquivalence ==
    run = 1 =>
        \A f \in DOMAIN fs :
            Processed(f) =>
                /\ fs[f] = WriteBytes(SpanRewriteFrom(f, ReadText(orig[f]), 1),
                                      platform)
                /\ \A k \in 1..Len(Patterns) :
                       FindIter(Patterns[k],
                                ForPatterns(ReadText(orig[f]), 1, k - 1, f,
                                            platform, {}))
                           = FindIter(Patterns[k], ReadText(orig[f]))

C9_Witness ==
    /\ run = 1
    /\ \E f \in DOMAIN fs :
           /\ Processed(f)
           /\ Len(FindIter(PatternOf(W_lib), ReadText(orig[f]))) = 2
           /\ fs[f] # orig[f]

====
